---- MODULE Spec2Model ----
(***************************************************************************)
(* Model of the priority ring buffer (package prb, final iteration:        *)
(* src/unnamed/part_000 lines 136-337).                                    *)
(*                                                                         *)
(* The state is one PriorityRingBuffer: its slots, cursors, count and      *)
(* insertion counter, plus the configuration fixed by New.  Every public   *)
(* method is one atomic action (each runs under b.mu for its whole body).  *)
(* History variables (call, live, inserts, dequeues, ...) record what the  *)
(* caller has observed; the code never reads them.                         *)
(***************************************************************************)
EXTENDS Integers, FiniteSets

\* ---------------------------------------------------------------- bounds
MaxCapacity == 3
MaxInserts == 4
MaxPriority == 1
\* Inserts in the specification of the read-only operations
MaxReadInserts == 2
\* Insert calls in the concurrent specification
MaxConcInserts == 2
\* the wide specification: one capacity above the others, one more Insert
WideCapacity == MaxCapacity + 1
WideInserts == MaxInserts + 1

Capacities == (0 - 1)..MaxCapacity
Windows == (0 - 1)..MaxCapacity
Priorities == 0..MaxPriority
\* the payload type T: its zero value and one other value
Values == {0, 1}

VARIABLES
  constructed,     \* New returned a buffer (not nil)
  newErr,          \* the error New returned
  elements,        \* b.elements : slot index -> Element
  capacity,        \* b.capacity
  head,            \* b.head
  tail,            \* b.tail
  size,            \* b.size
  bubbleWindow,    \* b.bubbleWindow
  orderCounter,    \* b.orderCounter
  overwriteGuard,  \* b.overwriteGuard
  call,            \* history: the last call, its arguments and results
  live,            \* history: accepted and neither dequeued nor evicted
  inserts,         \* history: number of successful Insert calls
  dequeues,        \* history: number of successful Dequeue calls
  overflowed,      \* history: some Insert was made on a full buffer
  increasing,      \* history: only Inserts so far, strictly increasing
  lastInserted,    \* history: the element built by the last Insert
  config,          \* history: the Config passed to New
  fifo,            \* reference: a bounded FIFO queue fed the same calls
  mu,              \* b.mu : the RWMutex (writer held, number of readers)
  goroutines       \* concurrent callers: position and locals of each

bufVars == <<constructed, newErr, elements, capacity, head, tail, size,
             bubbleWindow, orderCounter, overwriteGuard>>
histVars == <<call, live, inserts, dequeues, overflowed, increasing,
              lastInserted>>
\* what a sequential call never changes: the Config and the callers' state
seqFixed == <<config, mu, goroutines>>
vars == <<bufVars, histVars, config, fifo, mu, goroutines>>

\* ---------------------------------------------------------------- errors
\* An error value has an identity (what == and errors.Is compare) and a text.
Nil == [id |-> "nil", text |-> ""]
ErrInvalidCapacity ==
  [id |-> "ErrInvalidCapacity", text |-> "capacity must be positive"]
ErrInvalidWindow ==
  [id |-> "ErrInvalidWindow",
   text |-> "bubbleWindow must be zero or positive and less than capacity"]
ErrBufferEmpty == [id |-> "ErrBufferEmpty", text |-> "buffer is empty"]
ErrBufferFull ==
  [id |-> "ErrBufferFull",
   text |-> "buffer is full, refused to overwrite higher priority element"]
\* the value built by errors.New inside PeekMaxPriority
PeekMaxEmptyErr == [id |-> "errors.New@PeekMaxPriority", text |-> "buffer is empty"]

\* ---------------------------------------------------------------- data
Element(v, p, o) == [Value |-> v, Priority |-> p, InsertionOrder |-> o]
\* Element[T]{} : the zero value every slot holds after make()
ZeroElement == Element(0, 0, 0)

\* (i + 1) % capacity
Advance(i) == (i + 1) % capacity

\* slot index of logical offset i
SlotAt(i) == (head + i) % capacity

\* the slots head, head+1, ..., head+size-1 (mod capacity)
LiveSlots == {SlotAt(i) : i \in 0..(size - 1)}
LiveElements == {elements[s] : s \in LiveSlots}

\* ---------------------------------------------------------------- New
\* variant: a window equal to the capacity is let through
NewFails_WindowUpToCapacity(cap, win) ==
  IF cap <= 0 THEN ErrInvalidCapacity
  ELSE IF win < 0 \/ win > cap THEN ErrInvalidWindow
  ELSE Nil

NewFails(cap, win) ==
  IF cap <= 0 THEN ErrInvalidCapacity
  ELSE IF win < 0 \/ win > cap - 1 THEN ErrInvalidWindow
  ELSE Nil

\* history record of a call: op and its results (err, an element, an int), the
\* size and head it found, and for a Dequeue whether the call before it was an
\* accepted Insert into an empty buffer; for a Search its filters, the offsets
\* it returned and whether the call before it was the same Search
NoCall == [op |-> "New", err |-> Nil, elem |-> ZeroElement, n |-> 0,
           preSize |-> 0, preHead |-> 0, afterEmptyInsert |-> FALSE,
           filters |-> << >>, offsets |-> << >>, again |-> FALSE]

\* the callers of the concurrent specification
Goroutines == 1..2
Idle == [pc |-> "idle", op |-> "none", element |-> ZeroElement,
         overwriting |-> FALSE, insertIndex |-> 0, i |-> 0]
Unlocked == [writer |-> 0, readers |-> {}]

New(cap, win, guard) ==
  /\ newErr = NewFails(cap, win)
  /\ constructed = (NewFails(cap, win) = Nil)
  /\ capacity = IF NewFails(cap, win) = Nil THEN cap ELSE 0
  /\ bubbleWindow = IF NewFails(cap, win) = Nil THEN win ELSE 0
  /\ overwriteGuard = IF NewFails(cap, win) = Nil THEN guard ELSE FALSE
  /\ elements = [i \in 0..((IF NewFails(cap, win) = Nil THEN cap ELSE 0) - 1)
                   |-> ZeroElement]
  /\ head = 0
  /\ tail = 0
  /\ size = 0
  /\ orderCounter = 0
  /\ call = NoCall
  /\ live = {}
  /\ inserts = 0
  /\ dequeues = 0
  /\ overflowed = FALSE
  /\ increasing = TRUE
  /\ lastInserted = ZeroElement
  /\ config = [Capacity |-> cap, BubbleWindow |-> win, OverwriteGuard |-> guard]
  /\ fifo = << >>
  /\ mu = Unlocked
  /\ goroutines = [g \in Goroutines |-> Idle]

Init ==
  \E cap \in Capacities, win \in Windows, guard \in BOOLEAN :
    New(cap, win, guard)

\* ---------------------------------------------------------------- bubble
\* variant: an equal priority also moves the new element ahead
shouldSwap_TiesMove(current, previous) ==
  current.Priority >= previous.Priority

shouldSwap(current, previous) ==
  \/ current.Priority > previous.Priority
  \/ /\ current.Priority = previous.Priority
     /\ current.InsertionOrder < previous.InsertionOrder

Swap(els, i, j) == [els EXCEPT ![i] = els[j], ![j] = els[i]]

\* the guard that keeps the walk from passing head
BubbleStop(previousIndex) == size = capacity /\ previousIndex = head

\* the for loop of bubbleElement; i is the loop counter.  The result carries
\* the slots, the final index of the new element and the swaps performed.
RECURSIVE bubbleLoop(_, _, _)
bubbleLoop(els, insertIndex, i) ==
  IF ~(i <= bubbleWindow /\ size > 0)
  THEN [elements |-> els, index |-> insertIndex, swaps |-> i - 1]
  ELSE LET previousIndex == (insertIndex - 1 + capacity) % capacity IN
       IF BubbleStop(previousIndex)
       THEN [elements |-> els, index |-> insertIndex, swaps |-> i - 1]
       ELSE IF shouldSwap(els[insertIndex], els[previousIndex])
            THEN bubbleLoop(Swap(els, insertIndex, previousIndex),
                            previousIndex, i + 1)
            ELSE [elements |-> els, index |-> insertIndex, swaps |-> i - 1]

\* variant: the loop counter starts at 0, one step too many
bubbleElement_FromZero(els, insertIndex) == bubbleLoop(els, insertIndex, 0)

bubbleElement(els, insertIndex) == bubbleLoop(els, insertIndex, 1)

\* ---------------------------------------------------------------- reference
\* A plain bounded FIFO queue of the buffer's capacity that drops its oldest
\* element on overflow.  It is fed every Insert and Dequeue of a buffer built
\* with BubbleWindow = 0 and OverwriteGuard disabled, by rules of its own; the
\* code never reads it.  A queue is a tuple, its front at index 1.
IsPlainFifo == constructed /\ bubbleWindow = 0 /\ ~overwriteGuard
QLen(q) == Cardinality(DOMAIN q)
QPushBack(q, e) == [i \in 1..(QLen(q) + 1) |-> IF i <= QLen(q) THEN q[i] ELSE e]
QDropFront(q) == [i \in 1..(QLen(q) - 1) |-> q[i + 1]]
FifoPush(q, e) ==
  IF QLen(q) = capacity THEN QPushBack(QDropFront(q), e) ELSE QPushBack(q, e)
FifoPop(q) == IF QLen(q) = 0 THEN q ELSE QDropFront(q)

\* ---------------------------------------------------------------- Insert
\* variant: the guard lets an equal priority through
GuardRejects_Strict(priority) ==
  /\ size = capacity
  /\ overwriteGuard
  /\ priority < elements[head].Priority

\* variant: the guard is applied whether or not it is configured
GuardRejects_IgnoresFlag(priority) ==
  /\ size = capacity
  /\ priority <= elements[head].Priority

\* overwriting && b.overwriteGuard && priority <= b.elements[b.head].Priority
GuardRejects(priority) ==
  /\ size = capacity
  /\ overwriteGuard
  /\ priority <= elements[head].Priority

\* variant: head does not follow tail on overflow
InsertHead_Stays(overwriting, newTail) == head

\* head after an accepted Insert whose new tail is newTail
InsertHead(overwriting, newTail) == IF overwriting THEN newTail ELSE head

\* variant: size grows on an overflow Insert too
InsertSize_AlwaysGrows(overwriting) == size + 1

\* size after an accepted Insert
InsertSize(overwriting) == IF overwriting THEN size ELSE size + 1

Record(op, err, elem) ==
  [op |-> op, err |-> err, elem |-> elem, n |-> 0,
   preSize |-> size, preHead |-> head,
   afterEmptyInsert |-> FALSE,
   filters |-> << >>, offsets |-> << >>, again |-> FALSE]

\* how many Insert calls a behaviour makes
InsertBudget == IF capacity > MaxCapacity THEN WideInserts ELSE MaxInserts

Insert(value, priority) ==
  /\ constructed
  /\ orderCounter < InsertBudget
  /\ LET element == Element(value, priority, orderCounter)
         overwriting == size = capacity
         insertIndex == tail
     IN
     /\ orderCounter' = orderCounter + 1
     /\ lastInserted' = element
     /\ overflowed' = (overflowed \/ overwriting)
     /\ increasing' = (/\ increasing
                       /\ orderCounter > 0 => priority > lastInserted.Priority)
     /\ fifo' = IF IsPlainFifo THEN FifoPush(fifo, element) ELSE fifo
     /\ IF GuardRejects(priority)
        THEN /\ call' = Record("Insert", ErrBufferFull, element)
             /\ UNCHANGED <<elements, head, tail, size, live, inserts>>
        ELSE LET written == [elements EXCEPT ![insertIndex] = element]
                 bubbled == bubbleElement(written, insertIndex)
             IN
             /\ elements' = bubbled.elements
             /\ tail' = Advance(tail)
             /\ head' = InsertHead(overwriting, Advance(tail))
             /\ size' = InsertSize(overwriting)
             /\ call' = Record("Insert", Nil, element)
             /\ live' = (IF overwriting THEN live \ {elements[head]} ELSE live)
                           \cup {element}
             /\ inserts' = inserts + 1
  /\ UNCHANGED <<constructed, newErr, capacity, bubbleWindow, overwriteGuard,
                 dequeues, seqFixed>>

\* ---------------------------------------------------------------- Dequeue
\* variant: the element is read after head has advanced
DequeueElement_AfterAdvance == elements[Advance(head)]
\* variant: size is not decremented
DequeueSize_NoDecrement == size

DequeueElement == elements[head]
DequeueSize == size - 1

DequeueRecord(err, elem) ==
  [Record("Dequeue", err, elem) EXCEPT
     !.afterEmptyInsert =
        (call.op = "Insert" /\ call.err = Nil /\ call.preSize = 0)]

Dequeue ==
  /\ constructed
  /\ increasing' = FALSE
  /\ fifo' = IF IsPlainFifo THEN FifoPop(fifo) ELSE fifo
  /\ IF size = 0
     THEN /\ call' = DequeueRecord(ErrBufferEmpty, ZeroElement)
          /\ UNCHANGED <<head, size, live, dequeues>>
     ELSE /\ call' = DequeueRecord(Nil, DequeueElement)
          /\ head' = Advance(head)
          /\ size' = DequeueSize
          /\ live' = live \ {DequeueElement}
          /\ dequeues' = dequeues + 1
  /\ UNCHANGED <<constructed, newErr, elements, capacity, tail, bubbleWindow,
                 orderCounter, overwriteGuard, inserts, overflowed,
                 lastInserted, seqFixed>>

\* ---------------------------------------------------------------- Peek
ReadOnly == UNCHANGED <<bufVars, live, inserts, dequeues, overflowed,
                        increasing, lastInserted, fifo, seqFixed>>

\* variant: Peek also removes the element it returns
Peek_Removes ==
  /\ constructed
  /\ call' = IF size = 0
             THEN Record("Peek", ErrBufferEmpty, ZeroElement)
             ELSE Record("Peek", Nil, elements[head])
  /\ head' = IF size = 0 THEN head ELSE Advance(head)
  /\ size' = IF size = 0 THEN size ELSE size - 1
  /\ UNCHANGED <<constructed, newErr, elements, capacity, tail, bubbleWindow,
                 orderCounter, overwriteGuard, live, inserts, dequeues,
                 overflowed, increasing, lastInserted, fifo, seqFixed>>

Peek ==
  /\ constructed
  /\ call' = IF size = 0
             THEN Record("Peek", ErrBufferEmpty, ZeroElement)
             ELSE Record("Peek", Nil, elements[head])
  /\ ReadOnly

\* ---------------------------------------------------------------- PeekMaxPriority
\* variant: a later element of equal priority replaces the current maximum
Better_LaterTieWins(candidate, currMax) ==
  candidate.Priority >= currMax.Priority

\* the comparison of the scan: candidate replaces currMax
Better(candidate, currMax) ==
  \/ candidate.Priority > currMax.Priority
  \/ /\ candidate.Priority = currMax.Priority
     /\ candidate.InsertionOrder < currMax.InsertionOrder

\* the for loop of PeekMaxPriority: i runs from 1 to size-1
RECURSIVE maxScan(_, _)
maxScan(maxIndex, i) ==
  IF ~(i < size) THEN maxIndex
  ELSE LET index == (head + i) % capacity IN
       IF Better(elements[index], elements[maxIndex])
       THEN maxScan(index, i + 1)
       ELSE maxScan(maxIndex, i + 1)

PeekMaxPriority ==
  /\ constructed
  /\ call' = IF size = 0
             THEN Record("PeekMaxPriority", PeekMaxEmptyErr, ZeroElement)
             ELSE Record("PeekMaxPriority", Nil, elements[maxScan(head, 1)])
  /\ ReadOnly

\* ---------------------------------------------------------------- Len
Len ==
  /\ constructed
  /\ call' = [Record("Len", Nil, ZeroElement) EXCEPT !.n = size]
  /\ ReadOnly

\* ---------------------------------------------------------------- Capacity
Capacity ==
  /\ constructed
  /\ call' = [Record("Capacity", Nil, ZeroElement) EXCEPT !.n = capacity]
  /\ ReadOnly

\* ---------------------------------------------------------------- Search
\* A SearchFilter built by one of the three constructors.
SearchByValue(value) == [kind |-> "SearchByValue", arg |-> value]
SearchByPriority(priority) == [kind |-> "SearchByPriority", arg |-> priority]
SearchByMinPriority(minPriority) ==
  [kind |-> "SearchByMinPriority", arg |-> minPriority]

\* filter(element)
Apply(filter, e) ==
  CASE filter.kind = "SearchByValue" -> e.Value = filter.arg
    [] filter.kind = "SearchByPriority" -> e.Priority = filter.arg
    [] filter.kind = "SearchByMinPriority" -> e.Priority >= filter.arg

\* the inner loop: match stays true unless some filter rejects the element
RECURSIVE matchLoop(_, _, _)
matchLoop(filters, k, e) ==
  IF k > QLen(filters) THEN TRUE
  ELSE IF ~Apply(filters[k], e) THEN FALSE
  ELSE matchLoop(filters, k + 1, e)

\* variant: the raw slot index is appended
SearchOffset_RawIndex(i, index) == index

\* what Search appends for a match at logical offset i, slot index
SearchOffset(i, index) == i

\* the outer loop of Search: i runs from 0 to size-1
RECURSIVE searchLoop(_, _, _)
searchLoop(filters, i, result) ==
  IF ~(i < size) THEN result
  ELSE LET index == (head + i) % capacity
           element == elements[index]
       IN IF matchLoop(filters, 1, element)
          THEN searchLoop(filters, i + 1,
                          QPushBack(result, SearchOffset(i, index)))
          ELSE searchLoop(filters, i + 1, result)

Search(filters) ==
  /\ constructed
  /\ call' = [Record("Search", Nil, ZeroElement) EXCEPT
                !.filters = filters,
                !.offsets = searchLoop(filters, 0, << >>),
                !.again = (call.op = "Search" /\ call.filters = filters)]
  /\ ReadOnly

\* the filter lists tried: none, every single filter, and two lists of two
SingleFilters ==
  {SearchByValue(v) : v \in Values}
    \cup {SearchByPriority(p) : p \in Priorities}
    \cup {SearchByMinPriority(p) : p \in Priorities}
FilterLists ==
  {<< >>}
    \cup {<<f>> : f \in SingleFilters}
    \cup {<<SearchByValue(1), SearchByMinPriority(1)>>,
          <<SearchByMinPriority(1), SearchByPriority(MaxPriority)>>}

\* ---------------------------------------------------------------- callers
\* Concurrent callers.  Every method is cut at its statements, so that another
\* caller can run between two of them whenever b.mu lets it.  A caller at
\* "Lock" or "RLock" is blocked in that call; Unlock and RUnlock are the
\* deferred calls that run when the method returns.  The histories of the
\* sequential specifications are not kept here.
WriteOps == {"Insert", "Dequeue"}
\* the values concurrent callers insert: no statement branches on a value
ConcValues == {1}
SharedOps == {"Peek", "PeekMaxPriority", "Search", "Len"}

At(g, pc) == goroutines[g].pc = pc
Goto(g, pc) == [goroutines EXCEPT ![g].pc = pc]

\* Insert calls made and not yet numbered
PendingInserts ==
  Cardinality({g \in Goroutines : /\ goroutines[g].op = "Insert"
                                  /\ goroutines[g].pc \in {"Lock", "stamp"}})

\* sync.RWMutex: Lock waits for the writer and every reader to leave
CanLock == mu.writer = 0 /\ mu.readers = {}

\* variant: RLock that does not wait for the writer
CanRLock_IgnoresWriter == TRUE

\* sync.RWMutex: RLock waits for the writer to leave
CanRLock == mu.writer = 0

Call(g, op) ==
  /\ constructed
  /\ At(g, "idle")
  /\ op = "Insert" => orderCounter + PendingInserts < MaxConcInserts
  /\ goroutines' = [goroutines EXCEPT ![g] =
                      [Idle EXCEPT !.op = op,
                                   !.pc = IF op \in WriteOps THEN "Lock"
                                                             ELSE "RLock"]]
  /\ UNCHANGED <<bufVars, histVars, config, fifo, mu>>

Lock(g) ==
  /\ At(g, "Lock")
  /\ CanLock
  /\ mu' = [mu EXCEPT !.writer = g]
  /\ goroutines' = Goto(g, IF goroutines[g].op = "Insert" THEN "stamp"
                                                          ELSE "check")
  /\ UNCHANGED <<bufVars, histVars, config, fifo>>

Unlock(g) ==
  /\ At(g, "Unlock")
  /\ mu' = [mu EXCEPT !.writer = 0]
  /\ goroutines' = [goroutines EXCEPT ![g] = Idle]
  /\ UNCHANGED <<bufVars, histVars, config, fifo>>

RLock(g) ==
  /\ At(g, "RLock")
  /\ CanRLock
  /\ mu' = [mu EXCEPT !.readers = @ \cup {g}]
  /\ goroutines' = Goto(g, "read")
  /\ UNCHANGED <<bufVars, histVars, config, fifo>>

\* the body of a read-only method, which changes nothing, and its RUnlock
RUnlock(g) ==
  /\ At(g, "read")
  /\ mu' = [mu EXCEPT !.readers = @ \ {g}]
  /\ goroutines' = [goroutines EXCEPT ![g] = Idle]
  /\ UNCHANGED <<bufVars, histVars, config, fifo>>

\* Insert up to the guard: the element, orderCounter++, overwriting,
\* insertIndex, and the rejection
InsertStamp(g, value, priority) ==
  /\ At(g, "stamp")
  /\ orderCounter' = orderCounter + 1
  /\ goroutines' = [goroutines EXCEPT ![g] =
       [@ EXCEPT !.element = Element(value, priority, orderCounter),
                 !.overwriting = (size = capacity),
                 !.insertIndex = tail,
                 !.pc = IF GuardRejects(priority) THEN "Unlock" ELSE "write"]]
  /\ UNCHANGED <<constructed, newErr, elements, capacity, head, tail, size,
                 bubbleWindow, overwriteGuard, histVars, config, fifo, mu>>

\* b.elements[insertIndex] = element
InsertWrite(g) ==
  /\ At(g, "write")
  /\ elements' = [elements EXCEPT ![goroutines[g].insertIndex] =
                                     goroutines[g].element]
  /\ goroutines' = [goroutines EXCEPT ![g] =
       [@ EXCEPT !.element = ZeroElement, !.i = 1, !.pc = "bubble"]]
  /\ UNCHANGED <<constructed, newErr, capacity, head, tail, size,
                 bubbleWindow, orderCounter, overwriteGuard, histVars, config,
                 fifo, mu>>

\* one iteration of the loop of bubbleElement, or its exit
BubbleStep(g) ==
  /\ At(g, "bubble")
  /\ LET insertIndex == goroutines[g].insertIndex
         previousIndex == (insertIndex - 1 + capacity) % capacity
         swaps == /\ goroutines[g].i <= bubbleWindow /\ size > 0
                  /\ ~BubbleStop(previousIndex)
                  /\ shouldSwap(elements[insertIndex], elements[previousIndex])
     IN IF swaps
        THEN /\ elements' = Swap(elements, insertIndex, previousIndex)
             /\ goroutines' = [goroutines EXCEPT ![g] =
                  [@ EXCEPT !.insertIndex = previousIndex, !.i = @ + 1]]
        ELSE /\ goroutines' = [goroutines EXCEPT ![g] =
                  [@ EXCEPT !.i = 0, !.pc = "tail"]]
             /\ UNCHANGED elements
  /\ UNCHANGED <<constructed, newErr, capacity, head, tail, size,
                 bubbleWindow, orderCounter, overwriteGuard, histVars, config,
                 fifo, mu>>

\* b.tail = (b.tail + 1) % b.capacity
InsertTail(g) ==
  /\ At(g, "tail")
  /\ tail' = Advance(tail)
  /\ goroutines' = [goroutines EXCEPT ![g] =
       [@ EXCEPT !.insertIndex = 0, !.pc = "headsize"]]
  /\ UNCHANGED <<constructed, newErr, elements, capacity, head, size,
                 bubbleWindow, orderCounter, overwriteGuard, histVars, config,
                 fifo, mu>>

\* if overwriting { b.head = b.tail } else { b.size++ }
InsertHeadSize(g) ==
  /\ At(g, "headsize")
  /\ head' = InsertHead(goroutines[g].overwriting, tail)
  /\ size' = InsertSize(goroutines[g].overwriting)
  /\ goroutines' = [goroutines EXCEPT ![g] =
       [@ EXCEPT !.overwriting = FALSE, !.pc = "Unlock"]]
  /\ UNCHANGED <<constructed, newErr, elements, capacity, tail,
                 bubbleWindow, orderCounter, overwriteGuard, histVars, config,
                 fifo, mu>>

\* Dequeue: the empty test and element := b.elements[b.head]
DequeueCheck(g) ==
  /\ At(g, "check")
  /\ goroutines' = [goroutines EXCEPT ![g] =
       IF size = 0 THEN [@ EXCEPT !.pc = "Unlock"]
                   ELSE [@ EXCEPT !.element = DequeueElement, !.pc = "head"]]
  /\ UNCHANGED <<bufVars, histVars, config, fifo, mu>>

\* b.head = (b.head + 1) % b.capacity
DequeueAdvance(g) ==
  /\ At(g, "head")
  /\ head' = Advance(head)
  /\ goroutines' = Goto(g, "size")
  /\ UNCHANGED <<constructed, newErr, elements, capacity, tail, size,
                 bubbleWindow, orderCounter, overwriteGuard, histVars, config,
                 fifo, mu>>

\* b.size--
DequeueShrink(g) ==
  /\ At(g, "size")
  /\ size' = DequeueSize
  /\ goroutines' = Goto(g, "Unlock")
  /\ UNCHANGED <<constructed, newErr, elements, capacity, head, tail,
                 bubbleWindow, orderCounter, overwriteGuard, histVars, config,
                 fifo, mu>>

Next ==
  \/ \E value \in Values, priority \in Priorities : Insert(value, priority)
  \/ Dequeue
  \/ Peek
  \/ PeekMaxPriority
  \/ Len

Spec == Init /\ [][Next]_vars

\* The queue operations alone.
NextQueue ==
  \/ \E value \in Values, priority \in Priorities : Insert(value, priority)
  \/ Dequeue
  \/ Peek
  \/ Len

SpecQueue == Init /\ [][NextQueue]_vars

\* The same buffer with every read-only operation, over fewer Inserts.
NextRead ==
  \/ \E value \in Values, priority \in Priorities :
       orderCounter < MaxReadInserts /\ Insert(value, priority)
  \/ Dequeue
  \/ Peek
  \/ PeekMaxPriority
  \/ Len
  \/ Capacity
  \/ \E filters \in FilterLists : Search(filters)

SpecRead == Init /\ [][NextRead]_vars

\* the queue operations and PeekMaxPriority
NextMax ==
  \/ \E value \in Values, priority \in Priorities : Insert(value, priority)
  \/ Dequeue
  \/ PeekMaxPriority

SpecMax == Init /\ [][NextMax]_vars

\* a buffer of WideCapacity slots with a bubble window, never rejecting
InitWide == \E win \in 2..(WideCapacity - 1) : New(WideCapacity, win, FALSE)

NextWide ==
  \/ \E value \in Values, priority \in Priorities : Insert(value, priority)
  \/ Dequeue

SpecWide == InitWide /\ [][NextWide]_vars

\* the same buffer under several callers
NextConc ==
  \E g \in Goroutines :
    \/ \E op \in WriteOps \cup SharedOps : Call(g, op)
    \/ Lock(g)
    \/ Unlock(g)
    \/ RLock(g)
    \/ RUnlock(g)
    \/ \E value \in ConcValues, priority \in Priorities :
         InsertStamp(g, value, priority)
    \/ InsertWrite(g)
    \/ BubbleStep(g)
    \/ InsertTail(g)
    \/ InsertHeadSize(g)
    \/ DequeueCheck(g)
    \/ DequeueAdvance(g)
    \/ DequeueShrink(g)

SpecConc == Init /\ [][NextConc]_vars

\* ================================================================ claims
\* "more important" as the data model defines it: higher priority wins, on
\* equal priority the smaller insertion order wins
MoreImportant(a, b) ==
  \/ a.Priority > b.Priority
  \/ (a.Priority = b.Priority /\ a.InsertionOrder < b.InsertionOrder)

\* the step just taken was an Insert call
InsertStep == call'.op = "Insert" /\ orderCounter' = orderCounter + 1

\* C1: the elements accepted and neither dequeued nor evicted are exactly the
\* elements held in the size slots from head, and the element of every
\* accepted Insert is in one of those slots right after the call.
C1_LiveAreTheSlotsFromHead ==
  constructed =>
    /\ live = LiveElements
    /\ (call.op = "Insert" /\ call.err = Nil) => call.elem \in LiveElements

\* C2: with BubbleWindow = capacity-1, after strictly increasing Inserts on a
\* fresh buffer and no Dequeue, PeekMaxPriority returns the element just
\* inserted.
C2_PeekMaxReturnsJustInserted ==
  (/\ call.op = "PeekMaxPriority"
   /\ increasing
   /\ orderCounter > 0
   /\ bubbleWindow = capacity - 1)
  => (call.err = Nil /\ call.elem = lastInserted)

\* C3: 0 <= size <= capacity always, and while no Insert has been made on a
\* full buffer, size (and what Len returns) equals accepted Inserts minus
\* successful Dequeues.
C3_SizeCountsInsertsMinusDequeues ==
  constructed =>
    /\ 0 <= size /\ size <= capacity
    /\ ~overflowed => size = inserts - dequeues
    /\ (call.op = "Len" /\ ~overflowed) => call.n = inserts - dequeues

C3_Witness ==
  /\ call.op = "Len"
  /\ ~overflowed
  /\ inserts >= 2
  /\ dequeues >= 1
  /\ call.n = inserts - dequeues
  /\ call.n >= 1

\* C4: head and tail are indices in [0, capacity), and head = tail whenever
\* size = capacity.
C4_CursorsInRangeAndFullMeansHeadIsTail ==
  constructed =>
    /\ head \in 0..(capacity - 1)
    /\ tail \in 0..(capacity - 1)
    /\ size = capacity => head = tail

C4_Witness ==
  /\ constructed
  /\ capacity > 1
  /\ size = capacity
  /\ overflowed
  /\ head = tail
  /\ head > 0

\* C5: with the guard enabled, an Insert on a full buffer with priority <= the
\* head's priority fails with BufferFull and changes nothing but the insertion
\* counter, which advances by one; with priority > the head's it succeeds.
C5_GuardRejectsAndOnlyCounterMoves ==
  [][(InsertStep /\ size = capacity /\ overwriteGuard) =>
       IF call'.elem.Priority <= elements[head].Priority
       THEN /\ call'.err = ErrBufferFull
            /\ head' = head /\ tail' = tail /\ size' = size
            /\ elements' = elements
            /\ orderCounter' = orderCounter + 1
            /\ call'.elem.InsertionOrder = orderCounter
       ELSE call'.err = Nil]_vars

C5_Witness ==
  /\ call.op = "Insert"
  /\ call.err = ErrBufferFull
  /\ overwriteGuard
  /\ call.preSize = capacity
  /\ inserts > capacity
  /\ orderCounter > inserts

\* C6: an Insert accepted on a full buffer evicts exactly the element at head:
\* it is in no live slot afterwards, every other live element still is, the
\* new element is, size is still capacity and head has advanced by one.
C6_OverflowEvictsExactlyHead ==
  [][(InsertStep /\ size = capacity /\ call'.err = Nil) =>
       /\ elements[head] \notin LiveElements'
       /\ (LiveElements \ {elements[head]}) \subseteq LiveElements'
       /\ call'.elem \in LiveElements'
       /\ size' = capacity
       /\ head' = (head + 1) % capacity]_vars

\* C7: on an empty buffer Dequeue, Peek and PeekMaxPriority each fail with the
\* ErrBufferEmpty value and leave the buffer unchanged.
C7_EmptyFailsWithErrBufferEmpty ==
  [][(constructed /\ size = 0
      /\ call'.op \in {"Dequeue", "Peek", "PeekMaxPriority"}) =>
       /\ call'.err = ErrBufferEmpty
       /\ UNCHANGED bufVars]_vars

\* C8: PeekMaxPriority on a non-empty buffer returns an element of the live
\* slots such that no live slot holds one of strictly greater priority, nor
\* one of equal priority and smaller insertion order.
C8_PeekMaxIsMostImportant ==
  (call.op = "PeekMaxPriority" /\ call.preSize > 0) =>
    /\ call.err = Nil
    /\ call.elem \in LiveElements
    /\ \A s \in LiveSlots : ~MoreImportant(elements[s], call.elem)

C8_Witness ==
  /\ call.op = "PeekMaxPriority"
  /\ size >= 2
  /\ call.elem # elements[head]
  /\ \E s \in LiveSlots : /\ elements[s] # call.elem
                          /\ elements[s].Priority = call.elem.Priority

\* C9: of any two elements in live slots with equal priority, the one with
\* the smaller insertion order is the one closer to head.
C9_EqualPriorityKeepsArrivalOrder ==
  constructed =>
    \A i \in 0..(size - 1) : \A j \in 0..(size - 1) :
      (/\ i < j
       /\ elements[SlotAt(i)].Priority = elements[SlotAt(j)].Priority)
      => ~(elements[SlotAt(j)].InsertionOrder < elements[SlotAt(i)].InsertionOrder)

C9_Witness ==
  /\ call.op = "Insert"
  /\ call.err = Nil
  /\ \E i \in 0..(size - 1) : \E j \in 0..(size - 1) : \E k \in 0..(size - 1) :
       /\ i < j /\ j < k
       /\ elements[SlotAt(j)] = call.elem
       /\ elements[SlotAt(i)].Priority = call.elem.Priority
       /\ elements[SlotAt(i)].InsertionOrder < call.elem.InsertionOrder
       /\ elements[SlotAt(k)].Priority < call.elem.Priority
       /\ elements[SlotAt(k)].InsertionOrder < call.elem.InsertionOrder

\* C10: an Insert into a buffer of size 0 followed at once by Dequeue returns
\* exactly the inserted element (value, priority, insertion order = counter
\* at the Insert), and the buffer is empty again.
C10_InsertThenDequeueRoundTrip ==
  (call.op = "Dequeue" /\ call.afterEmptyInsert) =>
    /\ call.err = Nil
    /\ call.elem = lastInserted
    /\ call.elem.InsertionOrder = orderCounter - 1
    /\ size = 0

C10_Witness ==
  /\ call.op = "Dequeue"
  /\ call.afterEmptyInsert
  /\ dequeues >= 2
  /\ call.elem.Value = 1
  /\ call.elem.InsertionOrder >= 2
  /\ call.preHead > 0

\* C11: Search returns, in increasing order, exactly the logical offsets i in
\* [0, size) whose element at slot (head + i) mod capacity satisfies every
\* supplied filter; all offsets with no filters, none on an empty buffer.
Satisfies(f, e) ==
  \/ (f.kind = "SearchByValue" /\ e.Value = f.arg)
  \/ (f.kind = "SearchByPriority" /\ e.Priority = f.arg)
  \/ (f.kind = "SearchByMinPriority" /\ e.Priority >= f.arg)

MatchingOffsets(fs) ==
  {i \in 0..(size - 1) :
     \A k \in DOMAIN fs : Satisfies(fs[k], elements[(head + i) % capacity])}

C11_SearchReturnsMatchingOffsetsInOrder ==
  call.op = "Search" =>
    LET o == call.offsets
        n == Cardinality(DOMAIN o)
    IN /\ DOMAIN o = 1..n
       /\ {o[k] : k \in 1..n} = MatchingOffsets(call.filters)
       /\ \A k \in 1..(n - 1) : o[k] < o[k + 1]
       /\ call.filters = << >> => n = size
       /\ size = 0 => o = << >>

C11_Witness ==
  /\ call.op = "Search"
  /\ call.filters = <<SearchByMinPriority(1)>>
  /\ size = 2
  /\ call.offsets = <<1>>

\* C12: Peek, PeekMaxPriority, Search, Len and Capacity leave head, tail,
\* size, every slot and the insertion counter unchanged, and the same call
\* made twice in a row returns identical results.
ReadOps == {"Peek", "PeekMaxPriority", "Search", "Len", "Capacity"}

C12_ReadsChangeNothingAndRepeat ==
  [][call'.op \in ReadOps =>
       /\ UNCHANGED <<elements, head, tail, size, orderCounter>>
       /\ (call.op = call'.op /\ call.filters = call'.filters) =>
            /\ call'.err = call.err
            /\ call'.elem = call.elem
            /\ call'.n = call.n
            /\ call'.offsets = call.offsets]_vars

C12_Witness ==
  /\ call.op = "Search"
  /\ call.again
  /\ call.offsets # << >>
  /\ head > 0

\* C13: New fails with InvalidCapacity when Capacity <= 0, else with
\* InvalidWindow when BubbleWindow < 0 or BubbleWindow > Capacity-1, and
\* returns no buffer; otherwise it returns a buffer with head = tail = size =
\* 0, insertion counter 0 and Capacity empty slots.
C13_NewValidatesConfig ==
  LET cap == config.Capacity
      win == config.BubbleWindow
  IN /\ cap <= 0 => (newErr = ErrInvalidCapacity /\ ~constructed)
     /\ (cap > 0 /\ (win < 0 \/ win > cap - 1)) =>
          (newErr = ErrInvalidWindow /\ ~constructed)
     /\ (cap > 0 /\ win >= 0 /\ win <= cap - 1) =>
          /\ constructed /\ newErr = Nil
          /\ capacity = cap /\ bubbleWindow = win
          /\ overwriteGuard = config.OverwriteGuard
          /\ DOMAIN elements = 0..(cap - 1)
          /\ call.op = "New" =>
               /\ head = 0 /\ tail = 0 /\ size = 0 /\ orderCounter = 0
               /\ \A i \in 0..(cap - 1) : elements[i] = ZeroElement

C13_Witness ==
  /\ ~constructed
  /\ newErr = ErrInvalidWindow
  /\ config.Capacity > 0
  /\ config.BubbleWindow = config.Capacity

\* C14: under concurrent callers an Insert or a Dequeue holds b.mu
\* exclusively from its first statement to its return: while a caller is
\* inside one, no other caller is inside a mutating or a read-only method, so
\* no two mutations overlap; and whenever a caller is inside Peek,
\* PeekMaxPriority, Search or Len, no Insert or Dequeue is between its first
\* and its last state change and the cursors agree (tail is head plus size).
\* Read-only callers are not excluded by each other.
InWrite(g) ==
  goroutines[g].pc \in {"stamp", "write", "bubble", "tail", "headsize",
                        "check", "head", "size", "Unlock"}
MidWrite(g) ==
  goroutines[g].pc \in {"write", "bubble", "tail", "headsize", "size"}
InRead(g) == goroutines[g].pc = "read"

C14_WritersExcludeReadersShare ==
  \A g \in Goroutines :
    /\ InWrite(g) =>
         /\ mu.writer = g
         /\ mu.readers = {}
         /\ \A h \in Goroutines \ {g} : ~InWrite(h) /\ ~InRead(h)
    /\ InRead(g) =>
         /\ g \in mu.readers
         /\ \A h \in Goroutines : ~MidWrite(h)
         /\ tail = (head + size) % capacity

\* an Insert has swapped its element and not yet moved tail, while another
\* caller waits in RLock
C14_Witness ==
  \E g, h \in Goroutines :
    /\ At(g, "tail")
    /\ goroutines[g].insertIndex # tail
    /\ At(h, "RLock")

\* two read-only callers inside their methods at once
ReadersOverlap == \A g \in Goroutines : InRead(g)

\* slot reached from slot s by j steps toward head (and past it)
Back(s, j) == (s - j + 2 * capacity) % capacity

\* C15: the bubble walk of an accepted Insert never passes head: every swap is
\* with a slot of the live region at or after head, never a dequeued, evicted
\* or never-written slot.
C15_BubbleNeverPassesHead ==
  [][(InsertStep /\ call'.err = Nil) =>
       LET written == [elements EXCEPT ![tail] = call'.elem]
           walk == bubbleElement(written, tail)
       IN \A j \in 1..walk.swaps :
            /\ Back(tail, j) \in LiveSlots
            /\ size = capacity => Back(tail, j) # head]_vars

\* C16: an accepted Insert leaves the new element at most bubble_window slots
\* (mod capacity) before the slot it was written to, and in that slot when
\* bubble_window = 0.
C16_NewElementMovesAtMostWindow ==
  (constructed /\ call.op = "Insert" /\ call.err = Nil) =>
    /\ \E k \in 0..bubbleWindow : elements[Back(tail, 1 + k)] = call.elem
    /\ bubbleWindow = 0 => elements[Back(tail, 1)] = call.elem

C16_Witness ==
  /\ call.op = "Insert"
  /\ call.err = Nil
  /\ bubbleWindow >= 1
  /\ call.preSize >= bubbleWindow
  /\ elements[Back(tail, 1 + bubbleWindow)] = call.elem
  /\ elements[Back(tail, 1)] # call.elem

\* C17: every element a successful Dequeue returns was passed to an earlier
\* accepted Insert and has been neither returned before nor evicted.
C17_DequeueReturnsInsertedOnce ==
  [][(call'.op = "Dequeue" /\ call'.err = Nil) => call'.elem \in live]_vars

\* C18: tail = (head + size) mod capacity in every reachable state.
C18_TailIsHeadPlusSize ==
  constructed => tail = (head + size) % capacity

C18_Witness ==
  /\ constructed
  /\ head > 0
  /\ tail < head
  /\ size >= 2
  /\ size < capacity

\* C19: with BubbleWindow = 0 and OverwriteGuard disabled the buffer behaves
\* as the reference FIFO queue: the live slots from head hold the queue's
\* elements in arrival order, Dequeue and Peek return its front (or fail when
\* it is empty) and Len returns its length.
C19_PlainBufferIsFifo ==
  [][IsPlainFifo =>
       /\ QLen(fifo') = size'
       /\ \A i \in 0..(size' - 1) :
            elements'[(head' + i) % capacity] = fifo'[i + 1]
       /\ call'.op = "Len" => call'.n = QLen(fifo)
       /\ call'.op \in {"Peek", "Dequeue"} =>
            IF QLen(fifo) = 0
            THEN call'.err = ErrBufferEmpty
            ELSE call'.err = Nil /\ call'.elem = fifo[1]
       /\ call'.op = "Insert" => call'.err = Nil]_vars

C19_Witness ==
  /\ IsPlainFifo
  /\ capacity >= 2
  /\ overflowed
  /\ call.op = "Dequeue"
  /\ call.err = Nil
  /\ QLen(fifo) >= 1
  /\ fifo[1].InsertionOrder >= 2

\* C20: an accepted Insert moves only the new element: two elements live
\* before and after the call keep their relative distance-from-head order.
Precedes(els, h, n, a, b) ==
  \E i \in 0..(n - 1) : \E j \in 0..(n - 1) :
    i < j /\ els[(h + i) % capacity] = a /\ els[(h + j) % capacity] = b

C20_InsertKeepsRelativeOrder ==
  [][(InsertStep /\ call'.err = Nil) =>
       \A a \in (LiveElements \cap LiveElements') \ {call'.elem} :
         \A b \in (LiveElements \cap LiveElements') \ {call'.elem} :
           (a # b /\ Precedes(elements, head, size, a, b))
             => Precedes(elements', head', size', a, b)]_vars

====
